---- MODULE Spec2Model ----
(***************************************************************************)
(* RFID access-control server (server/main.py) together with the           *)
(* administrative card manager (server/card_manager.py) that rewrites the  *)
(* authorization store the server reads.                                   *)
(*                                                                         *)
(* Every file access of the Python code is one step: open(..,'r') +        *)
(* json.load is a read, open(..,'w') truncates the file, json.dump + the   *)
(* close of the with-block writes it.  Threads interleave between steps.   *)
(*                                                                         *)
(* A credential is a tuple of tokens; the token " " stands for a           *)
(* whitespace character, any other token for a run of non-whitespace       *)
(* characters.  str.strip() is the operator Strip.                         *)
(*                                                                         *)
(* RPi.GPIO: GPIO.output drives a pin that was set up as an output and     *)
(* raises RuntimeError otherwise; GPIO.cleanup() returns the pin to an     *)
(* input.  The relay is active low: the door is unlocked exactly while the *)
(* pin is driven LOW.                                                      *)
(***************************************************************************)
EXTENDS Integers, Sequences, FiniteSets, TLC

\* ------------------------------------------------------------------ bounds
\* number of connections the accept loop takes
NConn == 2
\* number of administrative commands run against the store
MaxAdminOps == 1
\* number of commands of one card manager session run on its own
MaxCmds == 3
\* number of times the system's local clock is set back
MaxClockBack == 1

Conns == 1..NConn

\* ------------------------------------------------------- program constants
WS == " "
ADMIN_ID == <<"0x1a2b3c4d">>
VISITOR_ID == <<"0xabcdef12">>
OTHER_ID == <<"0x00000001">>
OLD_ID == <<"0xffffffff">>

\* main.py:59-64
default_cards ==
  << [id |-> ADMIN_ID, name |-> "Cartao de Admin", authorized |-> TRUE],
     [id |-> VISITOR_ID, name |-> "Cartao de Visitante", authorized |-> FALSE] >>

\* what a reader device may send in one recv (raw, before strip)
Payloads ==
  { <<>>, <<WS>>, ADMIN_ID, <<"0x1a2b3c4d", WS>>, <<WS, "0xabcdef12">>, OTHER_ID }

\* ------------------------------------------------------------- persistence
\* A file is [st, rows]: st = "ok" (parseable JSON holding rows), "corrupt"
\* (not parseable: empty after a truncating open, or a longer older text
\* partly overwritten; rows then only records how much text is in it) or
\* "missing".
MissingFile == [st |-> "missing", rows |-> <<>>]
Truncated == [st |-> "corrupt", rows |-> <<>>]
OkFile(rows) == [st |-> "ok", rows |-> rows]

\* json.load of a file, with the fallback the caller's except clause gives
LoadOr(file, fallback) == IF file.st = "ok" THEN file.rows ELSE fallback

\* json.dump(rows) + close through a handle opened with 'w' earlier, given
\* the file as it is now.  The handle writes from offset 0 and does not
\* truncate again: text another writer put there since the open survives
\* past the end of ours and leaves the file unparseable.
DumpOutcomes(file, rows) ==
  IF Len(file.rows) = 0 \/ Len(rows) > Len(file.rows)
    THEN { OkFile(rows) }
    ELSE IF Len(rows) < Len(file.rows)
      THEN { [st |-> "corrupt", rows |-> file.rows] }
      ELSE { OkFile(rows), [st |-> "corrupt", rows |-> file.rows] }

\* ------------------------------------------------------------ pure helpers
RECURSIVE LStrip(_)
LStrip(s) == IF s # <<>> /\ Head(s) = WS THEN LStrip(Tail(s)) ELSE s

RECURSIVE RStrip(_)
RStrip(s) ==
  IF s # <<>> /\ s[Len(s)] = WS THEN RStrip(SubSeq(s, 1, Len(s) - 1)) ELSE s

\* str.strip(), main.py:102
Strip(s) == RStrip(LStrip(s))

\* the scan of is_card_authorized, main.py:93-96
RECURSIVE ScanCards(_, _)
ScanCards(cards, card_id) ==
  IF cards = <<>> THEN FALSE
  ELSE IF Head(cards).id = card_id THEN Head(cards).authorized
  ELSE ScanCards(Tail(cards), card_id)

HasId(cards, card_id) == \E i \in 1..Len(cards) : cards[i].id = card_id


\* ------------------------------------------------------------------- state
VARIABLES
  GPIO_AVAILABLE,   \* main.py:9-13, fixed at import
  pin,              \* SOLENOID_PIN: "INPUT" (not driven), "HIGH", "LOW"
  cardsFile,        \* authorized_cards.json
  logFile,          \* access_log.json
  authorized_cards, \* self.authorized_cards, shared by all handler threads
  clock,            \* datetime.now()
  serverPc,         \* main thread: __init__, start(), shutdown
  pc,               \* handler thread of each connection
  payload,          \* bytes received on the connection
  data,             \* handle_client local
  authorized,       \* handle_client local
  log_data,         \* save_access_log local
  response,         \* what was sent back, "NONE" before
  exc,              \* the step of handle_client that raised, "none" if none
  upc,              \* unlock thread started by each connection's handler
  adminPc,          \* card_manager process
  card_data,        \* card_manager local being saved
  adminOps,         \* commands run so far
  lastOp,           \* the command card_manager ran last (args of main())
  found,            \* history: the store file as the handler's load read it
  seenOp,           \* history: the completed command that load came after
  dirty,            \* history: another writer touched the store since then
  fresh,            \* history: value of ~dirty when the scan ran
  logged,           \* history: entries the handler dumped as its own
  unlocks,          \* history: unlock threads the handler started
  skew,             \* times the system's local clock was set back
  clear             \* dashboard "Limpar Registros": its step and what it removed

fileVars == <<cardsFile, logFile>>
srvVars == <<GPIO_AVAILABLE, serverPc>>
hVars == <<pc, payload, data, authorized, log_data, response, exc>>
admVars == <<adminPc, card_data, adminOps, lastOp>>
histVars == <<found, seenOp, dirty, fresh, logged, unlocks>>
envVars == <<skew, clear>>
vars == <<GPIO_AVAILABLE, pin, cardsFile, logFile, authorized_cards, clock,
          serverPc, pc, payload, data, authorized, log_data, response, exc,
          upc, adminPc, card_data, adminOps, lastOp,
          found, seenOp, dirty, fresh, logged, unlocks, skew, clear>>

\* stores the server may find when it starts
DupStore ==
  << [id |-> ADMIN_ID, name |-> "first", authorized |-> FALSE],
     [id |-> ADMIN_ID, name |-> "second", authorized |-> TRUE],
     [id |-> OTHER_ID, name |-> "first", authorized |-> TRUE],
     [id |-> OTHER_ID, name |-> "second", authorized |-> FALSE] >>

InitStores == { MissingFile, Truncated, OkFile(default_cards), OkFile(DupStore) }

OldEntry == [card_id |-> OLD_ID, timestamp |-> 0, authorized |-> FALSE]

InitLogs == { MissingFile, OkFile(<<OldEntry>>) }

NoOp == [cmd |-> "none", id |-> <<>>, authorized |-> FALSE, saved |-> FALSE]

Init ==
  /\ GPIO_AVAILABLE \in BOOLEAN
  /\ pin = "INPUT"
  /\ cardsFile \in InitStores
  /\ logFile \in InitLogs
  /\ authorized_cards = <<>>
  /\ clock = 1
  /\ serverPc = "init"
  /\ pc = [h \in Conns |-> "none"]
  /\ payload = [h \in Conns |-> <<>>]
  /\ data = [h \in Conns |-> <<>>]
  /\ authorized = [h \in Conns |-> FALSE]
  /\ log_data = [h \in Conns |-> <<>>]
  /\ response = [h \in Conns |-> "NONE"]
  /\ exc = [h \in Conns |-> "none"]
  /\ upc = [h \in Conns |-> "idle"]
  /\ adminPc = "idle"
  /\ card_data = <<>>
  /\ adminOps = 0
  /\ lastOp = NoOp
  /\ found = [h \in Conns |-> MissingFile]
  /\ seenOp = [h \in Conns |-> NoOp]
  /\ dirty = [h \in Conns |-> FALSE]
  /\ fresh = [h \in Conns |-> FALSE]
  /\ logged = [h \in Conns |-> <<>>]
  /\ unlocks = [h \in Conns |-> 0]
  /\ skew = 0
  /\ clear = [pc |-> "idle", removed |-> <<>>]

\* daemon threads run only while the interpreter is alive
Alive == serverPc # "exited"

\* a write to the store by anyone but handler h
Touch(h) == [k \in Conns |-> IF k = h THEN dirty[k] ELSE TRUE]
TouchAll == [k \in Conns |-> TRUE]

\* ------------------------------------------------------- server main thread
\* __init__: self.authorized_cards = self.load_authorized_cards(), the read
InitLoad ==
  /\ serverPc = "init"
  /\ IF cardsFile.st = "ok"
       THEN /\ authorized_cards' = cardsFile.rows
            /\ serverPc' = "setup"
       ELSE /\ serverPc' = "init_heal"
            /\ UNCHANGED authorized_cards
  /\ UNCHANGED <<envVars, GPIO_AVAILABLE, pin, fileVars, clock, hVars, upc, admVars, histVars>>

\* load_authorized_cards, the except branch: open(AUTH_CARDS_FILE, 'w')
InitHealOpen ==
  /\ serverPc = "init_heal"
  /\ cardsFile' = Truncated
  /\ serverPc' = "init_dump"
  /\ UNCHANGED <<envVars, GPIO_AVAILABLE, pin, logFile, authorized_cards, clock, hVars,
                 upc, admVars, histVars>>

\* load_authorized_cards, the except branch: json.dump(default_cards, f) and
\* return default_cards
InitHealDump ==
  /\ serverPc = "init_dump"
  /\ cardsFile' \in DumpOutcomes(cardsFile, default_cards)
  /\ authorized_cards' = default_cards
  /\ serverPc' = "setup"
  /\ UNCHANGED <<envVars, GPIO_AVAILABLE, pin, logFile, clock, hVars, upc, admVars,
                 histVars>>

\* _setup_gpio, then start() up to the accept loop
SetupGpio ==
  /\ serverPc = "setup"
  /\ pin' = IF GPIO_AVAILABLE THEN "HIGH" ELSE pin
  /\ serverPc' = "accepting"
  /\ UNCHANGED <<envVars, GPIO_AVAILABLE, fileVars, authorized_cards, clock, hVars, upc,
                 admVars, histVars>>

\* accept() + Thread(target=handle_client).start(); connections are numbered
\* in the order they are accepted
Accept(h) ==
  /\ serverPc = "accepting"
  /\ pc[h] = "none"
  /\ \A k \in Conns : k < h => pc[k] # "none"
  /\ pc' = [pc EXCEPT ![h] = "recv"]
  /\ UNCHANGED <<envVars, srvVars, pin, fileVars, authorized_cards, clock, payload, data,
                 authorized, log_data, response, exc, upc, admVars, histVars>>

\* KeyboardInterrupt in the accept loop
Interrupt ==
  /\ serverPc = "accepting"
  /\ serverPc' = "cleanup"
  /\ UNCHANGED <<envVars, GPIO_AVAILABLE, pin, fileVars, authorized_cards, clock, hVars,
                 upc, admVars, histVars>>

\* _cleanup_gpio: GPIO.output(SOLENOID_PIN, GPIO.HIGH)
CleanupOutput ==
  /\ serverPc = "cleanup"
  /\ IF GPIO_AVAILABLE
       THEN pin' = "HIGH" /\ serverPc' = "cleanup_gpio"
       ELSE pin' = pin /\ serverPc' = "sock_close"
  /\ UNCHANGED <<envVars, GPIO_AVAILABLE, fileVars, authorized_cards, clock, hVars, upc,
                 admVars, histVars>>

\* variant: the shutdown leaves the pin set up as an output
CleanupGpioKeepsOutput ==
  /\ serverPc = "cleanup_gpio"
  /\ pin' = pin
  /\ serverPc' = "sock_close"
  /\ UNCHANGED <<envVars, GPIO_AVAILABLE, fileVars, authorized_cards, clock, hVars, upc,
                 admVars, histVars>>

\* _cleanup_gpio: GPIO.cleanup()
CleanupGpio ==
  /\ serverPc = "cleanup_gpio"
  /\ pin' = "INPUT"
  /\ serverPc' = "sock_close"
  /\ UNCHANGED <<envVars, GPIO_AVAILABLE, fileVars, authorized_cards, clock, hVars, upc,
                 admVars, histVars>>

\* self.server_socket.close(); start() returns
SocketClose ==
  /\ serverPc = "sock_close"
  /\ serverPc' = "stopped"
  /\ UNCHANGED <<envVars, GPIO_AVAILABLE, pin, fileVars, authorized_cards, clock, hVars,
                 upc, admVars, histVars>>

\* the main thread ends and the interpreter exits, ending the daemon threads
Exit ==
  /\ serverPc = "stopped"
  /\ serverPc' = "exited"
  /\ UNCHANGED <<envVars, GPIO_AVAILABLE, pin, fileVars, authorized_cards, clock, hVars,
                 upc, admVars, histVars>>

\* ------------------------------------------------------------ handle_client
\* data = client_socket.recv(1024).decode('utf-8').strip()
Recv(h, p) ==
  /\ Alive
  /\ pc[h] = "recv"
  /\ payload' = [payload EXCEPT ![h] = p]
  /\ data' = [data EXCEPT ![h] = Strip(p)]
  /\ pc' = [pc EXCEPT ![h] = "load"]
  /\ UNCHANGED <<envVars, srvVars, pin, fileVars, authorized_cards, clock, authorized,
                 log_data, response, exc, upc, admVars, histVars>>

\* recv or decode raises: except clause, then finally
RecvFail(h) ==
  /\ Alive
  /\ pc[h] = "recv"
  /\ exc' = [exc EXCEPT ![h] = "recv"]
  /\ pc' = [pc EXCEPT ![h] = "close"]
  /\ UNCHANGED <<envVars, srvVars, pin, fileVars, authorized_cards, clock, payload, data,
                 authorized, log_data, response, upc, admVars, histVars>>

\* is_card_authorized: self.authorized_cards = self.load_authorized_cards(),
\* the read of the file
Load(h) ==
  /\ Alive
  /\ pc[h] = "load"
  /\ found' = [found EXCEPT ![h] = cardsFile]
  /\ seenOp' = [seenOp EXCEPT ![h] = IF adminPc = "idle" THEN lastOp ELSE NoOp]
  /\ dirty' = [dirty EXCEPT ![h] = FALSE]
  /\ IF cardsFile.st = "ok"
       THEN /\ authorized_cards' = cardsFile.rows
            /\ pc' = [pc EXCEPT ![h] = "scan"]
       ELSE /\ pc' = [pc EXCEPT ![h] = "heal"]
            /\ UNCHANGED authorized_cards
  /\ UNCHANGED <<envVars, srvVars, pin, fileVars, clock, payload, data, authorized,
                 log_data, response, exc, upc, admVars, fresh, logged, unlocks>>

\* load_authorized_cards, the except branch: open(AUTH_CARDS_FILE, 'w')
HealOpen(h) ==
  /\ Alive
  /\ pc[h] = "heal"
  /\ cardsFile' = Truncated
  /\ dirty' = Touch(h)
  /\ pc' = [pc EXCEPT ![h] = "heal_dump"]
  /\ UNCHANGED <<envVars, srvVars, pin, logFile, authorized_cards, clock, payload, data,
                 authorized, log_data, response, exc, upc, admVars, found,
                 seenOp, fresh, logged, unlocks>>

\* load_authorized_cards, the except branch: json.dump(default_cards, f) and
\* return default_cards
HealDump(h) ==
  /\ Alive
  /\ pc[h] = "heal_dump"
  /\ cardsFile' \in DumpOutcomes(cardsFile, default_cards)
  /\ authorized_cards' = default_cards
  /\ dirty' = Touch(h)
  /\ pc' = [pc EXCEPT ![h] = "scan"]
  /\ UNCHANGED <<envVars, srvVars, pin, logFile, clock, payload, data, authorized,
                 log_data, response, exc, upc, admVars, found, seenOp, fresh,
                 logged, unlocks>>

\* the value is_card_authorized returns for what self.authorized_cards holds
is_card_authorized(cards, card_id) == ScanCards(cards, card_id)

\* variant: the unlock thread is started as soon as the decision is known
ScanStartsUnlock(h) ==
  /\ Alive
  /\ pc[h] = "scan"
  /\ authorized' = [authorized EXCEPT ![h] = is_card_authorized(authorized_cards, data[h])]
  /\ fresh' = [fresh EXCEPT ![h] = ~dirty[h]]
  /\ IF authorized'[h]
       THEN /\ upc' = [upc EXCEPT ![h] = "start"]
            /\ unlocks' = [unlocks EXCEPT ![h] = unlocks[h] + 1]
       ELSE UNCHANGED <<upc, unlocks>>
  /\ pc' = [pc EXCEPT ![h] = "log_read"]
  /\ UNCHANGED <<envVars, srvVars, pin, fileVars, authorized_cards, clock, payload, data,
                 log_data, response, exc, admVars, found, seenOp, dirty,
                 logged>>

\* is_card_authorized: the loop over self.authorized_cards
Scan(h) ==
  /\ Alive
  /\ pc[h] = "scan"
  /\ authorized' = [authorized EXCEPT ![h] = is_card_authorized(authorized_cards, data[h])]
  /\ fresh' = [fresh EXCEPT ![h] = ~dirty[h]]
  /\ pc' = [pc EXCEPT ![h] = "log_read"]
  /\ UNCHANGED <<envVars, srvVars, pin, fileVars, authorized_cards, clock, payload, data,
                 log_data, response, exc, upc, admVars, found, seenOp, dirty,
                 logged, unlocks>>

\* save_access_log: read the log, [] when missing or unparseable
LogRead(h) ==
  /\ Alive
  /\ pc[h] = "log_read"
  /\ log_data' = [log_data EXCEPT ![h] = LoadOr(logFile, <<>>)]
  /\ pc' = [pc EXCEPT ![h] = "log_stamp"]
  /\ UNCHANGED <<envVars, srvVars, pin, fileVars, authorized_cards, clock, payload, data,
                 authorized, response, exc, upc, admVars, histVars>>

\* variant: the entry carries the payload as received
log_entry_raw(h) ==
  [card_id |-> payload[h], timestamp |-> clock, authorized |-> authorized[h]]

\* the entry save_access_log builds
log_entry(h) ==
  [card_id |-> data[h], timestamp |-> clock, authorized |-> authorized[h]]

\* datetime.now() reads the local wall clock, which is not monotonic: it is
\* set back by a clock adjustment or at the end of daylight saving time
ClockSetBack ==
  /\ Alive
  /\ skew < MaxClockBack
  /\ \E t \in 0..(clock - 1) : clock' = t
  /\ skew' = skew + 1
  /\ UNCHANGED <<clear, srvVars, pin, fileVars, authorized_cards, hVars, upc,
                 admVars, histVars>>

\* variant: the entry is put in front of the entries read
LogStampPrepends(h) ==
  /\ Alive
  /\ pc[h] = "log_stamp"
  /\ log_data' = [log_data EXCEPT ![h] = <<log_entry(h)>> \o log_data[h]]
  /\ clock' = clock + 1
  /\ pc' = [pc EXCEPT ![h] = "log_open"]
  /\ UNCHANGED <<envVars, srvVars, pin, fileVars, authorized_cards, payload, data,
                 authorized, response, exc, upc, admVars, histVars>>

\* save_access_log: build the entry with datetime.now() and append it
LogStamp(h) ==
  /\ Alive
  /\ pc[h] = "log_stamp"
  /\ log_data' = [log_data EXCEPT ![h] = Append(log_data[h], log_entry(h))]
  /\ clock' = clock + 1
  /\ pc' = [pc EXCEPT ![h] = "log_open"]
  /\ UNCHANGED <<envVars, srvVars, pin, fileVars, authorized_cards, payload, data,
                 authorized, response, exc, upc, admVars, histVars>>

\* save_access_log: open(LOG_FILE, 'w') truncates
LogOpen(h) ==
  /\ Alive
  /\ pc[h] = "log_open"
  /\ logFile' = Truncated
  /\ pc' = [pc EXCEPT ![h] = "log_dump"]
  /\ UNCHANGED <<envVars, srvVars, pin, cardsFile, authorized_cards, clock, payload,
                 data, authorized, log_data, response, exc, upc, admVars,
                 histVars>>

\* save_access_log: json.dump(log_data, f) and the close of the file
LogDump(h) ==
  /\ Alive
  /\ pc[h] = "log_dump"
  /\ logFile' \in DumpOutcomes(logFile, log_data[h])
  /\ logged' = [logged EXCEPT ![h] = Append(logged[h], log_data[h][Len(log_data[h])])]
  /\ log_data' = [log_data EXCEPT ![h] = <<>>]
  /\ pc' = [pc EXCEPT ![h] = "unlock"]
  /\ UNCHANGED <<envVars, srvVars, pin, cardsFile, authorized_cards, clock, payload,
                 data, authorized, response, exc, upc, admVars, found, seenOp,
                 dirty, fresh, unlocks>>

\* variant: the test of the decision is inverted
StartsUnlockInverted(h) == ~authorized[h]

\* whether handle_client starts the unlock thread
StartsUnlock(h) == authorized[h]

\* if authorized: Thread(target=self._unlock_door, daemon=True).start()
Unlock(h) ==
  /\ Alive
  /\ pc[h] = "unlock"
  /\ IF StartsUnlock(h)
       THEN /\ upc' = [upc EXCEPT ![h] = "start"]
            /\ unlocks' = [unlocks EXCEPT ![h] = unlocks[h] + 1]
       ELSE UNCHANGED <<upc, unlocks>>
  /\ pc' = [pc EXCEPT ![h] = "send"]
  /\ UNCHANGED <<envVars, srvVars, pin, fileVars, authorized_cards, clock, payload, data,
                 authorized, log_data, response, exc, admVars, found, seenOp,
                 dirty, fresh, logged>>

\* response = "AUTHORIZED" if authorized else "DENIED"
Response(h) == IF authorized[h] THEN "AUTHORIZED" ELSE "DENIED"

\* client_socket.sendall(response.encode('utf-8'))
Send(h) ==
  /\ Alive
  /\ pc[h] = "send"
  /\ \/ /\ response' = [response EXCEPT ![h] = Response(h)]
        /\ UNCHANGED exc
     \/ \* the peer is gone: sendall raises
        /\ exc' = [exc EXCEPT ![h] = "send"]
        /\ UNCHANGED response
  /\ pc' = [pc EXCEPT ![h] = "close"]
  /\ UNCHANGED <<envVars, srvVars, pin, fileVars, authorized_cards, clock, payload, data,
                 authorized, log_data, upc, admVars, histVars>>

\* variant: the close is the last statement of the try block
CloseInsideTry(h) ==
  /\ Alive
  /\ pc[h] = "close"
  /\ exc[h] = "none"
  /\ pc' = [pc EXCEPT ![h] = "closed"]
  /\ UNCHANGED <<envVars, srvVars, pin, fileVars, authorized_cards, clock, payload, data,
                 authorized, log_data, response, exc, upc, admVars, histVars>>

\* finally: client_socket.close()
Close(h) ==
  /\ Alive
  /\ pc[h] = "close"
  /\ pc' = [pc EXCEPT ![h] = "closed"]
  /\ UNCHANGED <<envVars, srvVars, pin, fileVars, authorized_cards, clock, payload, data,
                 authorized, log_data, response, exc, upc, admVars, histVars>>

\* --------------------------------------------- handle_client, steps that raise
\* is_card_authorized raises what load_authorized_cards does not catch (the
\* file cannot be opened, the defaults cannot be written): except, then finally
LoadFail(h) ==
  /\ Alive
  /\ pc[h] \in {"load", "heal", "heal_dump"}
  /\ exc' = [exc EXCEPT ![h] = "load"]
  /\ pc' = [pc EXCEPT ![h] = "close"]
  /\ UNCHANGED <<envVars, srvVars, pin, fileVars, authorized_cards, clock, payload, data,
                 authorized, log_data, response, upc, admVars, histVars>>

\* save_access_log raises at its read, its open or its dump: its own
\* except Exception prints and returns, and handle_client goes on
LogFail(h) ==
  /\ Alive
  /\ pc[h] \in {"log_read", "log_open", "log_dump"}
  /\ log_data' = [log_data EXCEPT ![h] = <<>>]
  /\ pc' = [pc EXCEPT ![h] = "unlock"]
  /\ UNCHANGED <<envVars, srvVars, pin, fileVars, authorized_cards, clock, payload, data,
                 authorized, response, exc, upc, admVars, histVars>>

\* Thread(...).start() raises: except, then finally
ThreadFail(h) ==
  /\ Alive
  /\ pc[h] = "unlock"
  /\ StartsUnlock(h)
  /\ exc' = [exc EXCEPT ![h] = "thread"]
  /\ pc' = [pc EXCEPT ![h] = "close"]
  /\ UNCHANGED <<envVars, srvVars, pin, fileVars, authorized_cards, clock, payload, data,
                 authorized, log_data, response, upc, admVars, histVars>>

\* ------------------------------------------------------------- _unlock_door
\* simulation: print and return; otherwise GPIO.output(SOLENOID_PIN, GPIO.LOW),
\* which raises once GPIO.cleanup() has run
UnlockOpen(h) ==
  /\ Alive
  /\ upc[h] = "start"
  /\ IF ~GPIO_AVAILABLE
       THEN upc' = [upc EXCEPT ![h] = "done"] /\ pin' = pin
       ELSE IF pin = "INPUT"
         THEN upc' = [upc EXCEPT ![h] = "failed"] /\ pin' = pin
         ELSE upc' = [upc EXCEPT ![h] = "hold"] /\ pin' = "LOW"
  /\ UNCHANGED <<envVars, srvVars, fileVars, authorized_cards, clock, hVars, admVars,
                 histVars>>

\* variant: the thread ends after the sleep without driving the pin HIGH
UnlockRelockSkipped(h) ==
  /\ Alive
  /\ upc[h] = "hold"
  /\ upc' = [upc EXCEPT ![h] = "done"]
  /\ UNCHANGED <<envVars, srvVars, pin, fileVars, authorized_cards, clock, hVars, admVars,
                 histVars>>

\* after sleep(DOOR_OPEN_SECONDS): GPIO.output(SOLENOID_PIN, GPIO.HIGH)
UnlockRelock(h) ==
  /\ Alive
  /\ upc[h] = "hold"
  /\ IF pin = "INPUT"
       THEN upc' = [upc EXCEPT ![h] = "failed"] /\ pin' = pin
       ELSE upc' = [upc EXCEPT ![h] = "done"] /\ pin' = "HIGH"
  /\ UNCHANGED <<envVars, srvVars, fileVars, authorized_cards, clock, hVars, admVars,
                 histVars>>

\* ------------------------------------------------------------- card_manager
\* arguments the administrator gives on the command line
AdminIds == { ADMIN_ID, OTHER_ID }
AdminNames == { "Novo" }

\* load_cards: {"cards": []} when the file is missing or unparseable
load_cards == LoadOr(cardsFile, <<>>)

\* update_card: set authorized on the first card with this id
RECURSIVE SetFirst(_, _, _)
SetFirst(cards, card_id, auth) ==
  IF cards = <<>> THEN <<>>
  ELSE IF Head(cards).id = card_id
    THEN <<[Head(cards) EXCEPT !.authorized = auth]>> \o Tail(cards)
    ELSE <<Head(cards)>> \o SetFirst(Tail(cards), card_id, auth)

\* delete_card: keep the cards with another id
RECURSIVE Without(_, _)
Without(cards, card_id) ==
  IF cards = <<>> THEN <<>>
  ELSE IF Head(cards).id = card_id
    THEN Without(Tail(cards), card_id)
    ELSE <<Head(cards)>> \o Without(Tail(cards), card_id)

\* what add_card hands to save_cards
AddResult(cards, card_id, name, auth) ==
  Append(cards, [id |-> card_id, name |-> name, authorized |-> auth])

\* variant: add_card does not look for the id
AddNeverNoop(cards, card_id) == FALSE

\* whether add_card returns without saving
AddIsNoop(cards, card_id) == HasId(cards, card_id)

\* a command that reaches save_cards(data), or returns without saving
AdminRun(cmd, saves, result) ==
  /\ adminPc = "idle"
  /\ adminOps < MaxCmds
  /\ adminOps' = adminOps + 1
  /\ lastOp' = cmd
  /\ IF saves
       THEN card_data' = result /\ adminPc' = "open"
       ELSE card_data' = <<>> /\ adminPc' = "idle"
  /\ UNCHANGED <<envVars, srvVars, pin, fileVars, authorized_cards, clock, hVars, upc,
                 histVars>>

add_card(card_id, name, auth) ==
  AdminRun([cmd |-> "add", id |-> card_id, authorized |-> auth, saved |-> FALSE],
           ~AddIsNoop(load_cards, card_id),
           AddResult(load_cards, card_id, name, auth))

update_card(card_id, auth) ==
  AdminRun([cmd |-> "update", id |-> card_id, authorized |-> auth, saved |-> FALSE],
           HasId(load_cards, card_id),
           SetFirst(load_cards, card_id, auth))

delete_card(card_id) ==
  AdminRun([cmd |-> "delete", id |-> card_id, authorized |-> FALSE, saved |-> FALSE],
           Len(Without(load_cards, card_id)) < Len(load_cards),
           Without(load_cards, card_id))

\* save_cards: open(AUTH_CARDS_FILE, 'w') truncates
SaveOpen ==
  /\ adminPc = "open"
  /\ cardsFile' = Truncated
  /\ dirty' = TouchAll
  /\ adminPc' = "dump"
  /\ UNCHANGED <<envVars, srvVars, pin, logFile, authorized_cards, clock, hVars, upc,
                 card_data, adminOps, lastOp, found, seenOp, fresh, logged,
                 unlocks>>

\* save_cards: json.dump(data, f) and the close of the file
SaveDump ==
  /\ adminPc = "dump"
  /\ cardsFile' \in DumpOutcomes(cardsFile, card_data)
  /\ dirty' = TouchAll
  /\ adminPc' = "idle"
  /\ card_data' = <<>>
  /\ lastOp' = [lastOp EXCEPT !.saved = TRUE]
  /\ UNCHANGED <<envVars, srvVars, pin, logFile, authorized_cards, clock, hVars, upc,
                 adminOps, found, seenOp, fresh, logged, unlocks>>

\* ------------------------------------------------------------ specification
\* the main thread: construction, accept loop, shutdown
ServerStep ==
  \/ InitLoad
  \/ InitHealOpen
  \/ InitHealDump
  \/ SetupGpio
  \/ \E h \in Conns : Accept(h)

ShutdownStep ==
  \/ Interrupt
  \/ CleanupOutput
  \/ CleanupGpio
  \/ SocketClose
  \/ Exit

\* a handler thread after its recv
HandlerStep ==
  \/ \E h \in Conns : Load(h)
  \/ \E h \in Conns : Scan(h)
  \/ \E h \in Conns : LogRead(h)
  \/ \E h \in Conns : LogStamp(h)
  \/ \E h \in Conns : LogOpen(h)
  \/ \E h \in Conns : LogDump(h)
  \/ \E h \in Conns : Unlock(h)
  \/ \E h \in Conns : Send(h)
  \/ \E h \in Conns : Close(h)

\* the card manager: a command of its menu
AdminCommand ==
  \/ \E i \in AdminIds, n \in AdminNames, a \in BOOLEAN : add_card(i, n, a)
  \/ \E i \in AdminIds, a \in BOOLEAN : update_card(i, a)
  \/ \E i \in AdminIds : delete_card(i)

\* the card manager: the save_cards a command reached
AdminSave ==
  \/ SaveOpen
  \/ SaveDump

AdminStep ==
  \/ AdminCommand
  \/ AdminSave

\* The server on its own: any payloads, any interleaving of the handler and
\* unlock threads, shutdown at any moment.  Nobody else writes the files.
Next ==
  \/ ServerStep
  \/ ShutdownStep
  \/ \E h \in Conns, p \in Payloads : Recv(h, p)
  \/ \E h \in Conns : RecvFail(h)
  \/ HandlerStep
  \/ \E h \in Conns : UnlockOpen(h)
  \/ \E h \in Conns : UnlockRelock(h)

Spec == Init /\ [][Next]_vars

\* The server next to the card manager.  The door and the shutdown do not
\* touch the store: the server runs in simulation mode and is not interrupted.
StorePayloads == { ADMIN_ID, OTHER_ID }

InitStore ==
  /\ Init
  /\ ~GPIO_AVAILABLE
  /\ logFile = MissingFile

NextStore ==
  \/ ServerStep
  \/ \E h \in Conns, p \in StorePayloads : Recv(h, p)
  \/ HandlerStep
  \/ \E h \in Conns : HealOpen(h)
  \/ \E h \in Conns : HealDump(h)
  \/ \E h \in Conns : UnlockOpen(h)
  \/ adminOps < MaxAdminOps /\ AdminCommand
  \/ AdminSave

SpecStore == InitStore /\ [][NextStore]_vars

\* The door: the pin, the unlock threads and the shutdown, with a store that
\* holds the default cards and payloads that are authorized or not.
DoorPayloads == { ADMIN_ID, VISITOR_ID }

InitDoor ==
  /\ Init
  /\ cardsFile \in { MissingFile, OkFile(default_cards) }
  /\ logFile = MissingFile

NextDoor ==
  \/ ServerStep
  \/ ShutdownStep
  \/ \E h \in Conns, p \in DoorPayloads : Recv(h, p)
  \/ HandlerStep
  \/ \E h \in Conns : UnlockOpen(h)
  \/ \E h \in Conns : UnlockRelock(h)

SpecDoor == InitDoor /\ [][NextDoor]_vars

\* threads that can run do run; the shutdown, once begun, goes on
FairDoor ==
  /\ SpecDoor
  /\ \A h \in Conns : WF_vars(UnlockOpen(h)) /\ WF_vars(UnlockRelock(h))
  /\ WF_vars(CleanupOutput) /\ WF_vars(CleanupGpio)

\* The card manager on its own, the server not started: a session of commands
\* against a store whose ids are unique, or that is missing or unparseable.
InitAdmin ==
  /\ Init
  /\ ~GPIO_AVAILABLE
  /\ cardsFile \in InitStores \ { OkFile(DupStore) }
  /\ logFile = MissingFile

SpecAdmin == InitAdmin /\ [][AdminStep]_vars

\* The log under a wall clock that can be set back.  The server runs in
\* simulation mode and is not interrupted.
ClockPayloads == { ADMIN_ID, OTHER_ID }

InitClock ==
  /\ Init
  /\ ~GPIO_AVAILABLE
  /\ cardsFile \in { MissingFile, OkFile(default_cards) }

NextClock ==
  \/ ServerStep
  \/ \E h \in Conns, p \in ClockPayloads : Recv(h, p)
  \/ HandlerStep
  \/ \E h \in Conns : UnlockOpen(h)
  \/ ClockSetBack

SpecClock == InitClock /\ [][NextClock]_vars

\* ------------------------------------------------- streamlit_app, tab_logs
\* the rerun a click of "Limpar Registros" starts: logs = _load_logs(), and
\* the button is drawn only if rows is not empty
ClearLoad ==
  /\ clear.pc = "idle"
  /\ LoadOr(logFile, <<>>) # <<>>
  /\ clear' = [pc |-> "open", removed |-> LoadOr(logFile, <<>>)]
  /\ UNCHANGED <<skew, srvVars, pin, fileVars, authorized_cards, clock, hVars, upc,
                 admVars, histVars>>

\* open(ACCESS_LOG, 'w') truncates
ClearOpen ==
  /\ clear.pc = "open"
  /\ logFile' = Truncated
  /\ clear' = [clear EXCEPT !.pc = "dump"]
  /\ UNCHANGED <<skew, srvVars, pin, cardsFile, authorized_cards, clock, hVars, upc,
                 admVars, histVars>>

\* json.dump([], f, indent=4) and the close of the file
ClearDump ==
  /\ clear.pc = "dump"
  /\ logFile' \in DumpOutcomes(logFile, <<>>)
  /\ clear' = [clear EXCEPT !.pc = "done"]
  /\ UNCHANGED <<skew, srvVars, pin, cardsFile, authorized_cards, clock, hVars, upc,
                 admVars, histVars>>

\* The server next to the dashboard's log tab.  The server runs in simulation
\* mode and is not interrupted.
ClearPayloads == { ADMIN_ID, OTHER_ID }

InitClear ==
  /\ Init
  /\ ~GPIO_AVAILABLE
  /\ cardsFile \in { MissingFile, OkFile(default_cards) }

NextClear ==
  \/ ServerStep
  \/ \E h \in Conns, p \in ClearPayloads : Recv(h, p)
  \/ HandlerStep
  \/ \E h \in Conns : UnlockOpen(h)
  \/ ClearLoad
  \/ ClearOpen
  \/ ClearDump

SpecClear == InitClear /\ [][NextClear]_vars

\* The handler with steps that raise.  The server runs in simulation mode and
\* is not interrupted.
FaultPayloads == { ADMIN_ID, OTHER_ID }

InitFault ==
  /\ InitDoor
  /\ ~GPIO_AVAILABLE

NextFault ==
  \/ ServerStep
  \/ \E h \in Conns, p \in FaultPayloads : Recv(h, p)
  \/ \E h \in Conns : RecvFail(h)
  \/ HandlerStep
  \/ \E h \in Conns : LoadFail(h)
  \/ \E h \in Conns : LogFail(h)
  \/ \E h \in Conns : ThreadFail(h)
  \/ \E h \in Conns : UnlockOpen(h)

SpecFault == InitFault /\ [][NextFault]_vars

\* the statements of a handler thread that do not wait for the peer
HandlerRuns(h) ==
  \/ Load(h)
  \/ Scan(h)
  \/ LogRead(h)
  \/ LogStamp(h)
  \/ LogOpen(h)
  \/ LogDump(h)
  \/ Unlock(h)
  \/ Send(h)
  \/ Close(h)

\* a thread that can run does run.  What recv returns, and when, is the
\* peer's doing: Recv and RecvFail carry no fairness.
FairFault ==
  /\ SpecFault
  /\ \A h \in Conns : WF_vars(HandlerRuns(h)) /\ WF_vars(UnlockOpen(h))

\* ------------------------------------------------------------------ claims
\* the handler has a decision: is_card_authorized has returned
Decided(h) ==
  /\ pc[h] \in {"log_read", "log_stamp", "log_open", "log_dump", "unlock",
                "send", "close", "closed"}
  /\ exc[h] # "recv"

\* the handler is past save_access_log
PastLog(h) == pc[h] \in {"unlock", "send", "close", "closed"} /\ exc[h] # "recv"

\* the handler is past the start of the unlock thread
PastUnlock(h) == pc[h] \in {"send", "close", "closed"} /\ exc[h] # "recv"

\* the handler ran to its end and no step of it raised
Finished(h) == pc[h] = "closed" /\ exc[h] = "none"

IsNew(e) == e.card_id # OLD_ID
NewEntries == SelectSeq(LoadOr(logFile, <<>>), IsNew)
EntriesFor(id) == { i \in 1..Len(NewEntries) : NewEntries[i].card_id = id }

\* C1: when all NConn connections, each delivering a distinct non-empty
\* credential id, have run to their end in any interleaving, the persisted
\* log holds exactly NConn new entries, one per credential id.
C1_NoLostEntries ==
  ( /\ \A h \in Conns : Finished(h) /\ data[h] # <<>>
    /\ \A h, k \in Conns : h # k => data[h] # data[k] )
  => /\ logFile.st = "ok"
     /\ Len(NewEntries) = NConn
     /\ \A h \in Conns : Cardinality(EntriesFor(data[h])) = 1

C3_OpenLeadsToClosed == (pin = "LOW") ~> (pin # "LOW")

\* one unlock thread relocked the door, another was cut short by the shutdown
C3_Witness ==
  /\ GPIO_AVAILABLE
  /\ pin # "LOW"
  /\ \E h, k \in Conns : h # k /\ upc[h] = "done" /\ upc[k] = "failed"

\* C4: once _cleanup_gpio and the close of the listening socket have run,
\* the pin is not LOW, whatever threads are still running.
C4_ClosedAfterShutdown ==
  serverPc \in {"stopped", "exited"} => pin # "LOW"

\* after the shutdown an unlock thread tried to drive the pin and failed
C4_Witness ==
  /\ GPIO_AVAILABLE
  /\ serverPc = "stopped"
  /\ \E h \in Conns : upc[h] = "failed" /\ pc[h] = "closed"

\* C5: a credential id that matches no record of the store as the check
\* found it is denied, with no unlock; with several records of one id the
\* first decides.
C5_UnknownIdDenied ==
  \A h \in Conns :
    (Decided(h) /\ fresh[h]) =>
      /\ ~HasId(LoadOr(found[h], <<>>), data[h]) =>
           /\ ~authorized[h]
           /\ unlocks[h] = 0
           /\ response[h] # "AUTHORIZED"
      /\ found[h].st = "ok" =>
           authorized[h] = ScanCards(found[h].rows, data[h])

\* C6: a check that finds the store missing or unparseable denies every id.
C6_MissingStoreDeniesAll ==
  \A h \in Conns :
    (Decided(h) /\ found[h].st # "ok") =>
      /\ ~authorized[h]
      /\ response[h] # "AUTHORIZED"
      /\ \A i \in 1..Len(logged[h]) : ~logged[h][i].authorized

\* C7: when the first record matching the id in the store the check read is
\* authorized, the handler decides authorized, starts exactly one unlock
\* thread and replies AUTHORIZED; no handler ever starts more than one.
C7_AuthorizedUnlocksOnce ==
  \A h \in Conns :
    /\ unlocks[h] <= 1
    /\ ~PastUnlock(h) => unlocks[h] = 0
    /\ ( /\ Decided(h) /\ fresh[h] /\ found[h].st = "ok"
         /\ ScanCards(found[h].rows, data[h]) ) =>
         /\ authorized[h]
         /\ PastUnlock(h) => unlocks[h] = 1 /\ upc[h] # "idle"
         /\ Finished(h) => response[h] = "AUTHORIZED"

\* a handler finished for an id whose first record is authorized and whose
\* second is not
C7_Witness ==
  \E h \in Conns :
    /\ Finished(h) /\ fresh[h]
    /\ found[h] = OkFile(DupStore) /\ data[h] = OTHER_ID
    /\ response[h] = "AUTHORIZED" /\ unlocks[h] = 1 /\ upc[h] = "done"

\* the status a saved command leaves for its id
StatusAfter(op) == op.cmd # "delete" /\ op.authorized

\* C8: a check that starts after add_card, update_card or delete_card has
\* saved, for the id of that command, returns the status the command saved.
C8_AdminEditTakesEffect ==
  \A h \in Conns :
    (Decided(h) /\ fresh[h] /\ seenOp[h].saved /\ seenOp[h].id = data[h]) =>
      authorized[h] = StatusAfter(seenOp[h])

\* C9: only the card manager's save_cards changes the store file; no step
\* of the server does.
C9_CoreNeverWritesStore ==
  [][cardsFile' # cardsFile => adminPc' # adminPc]_vars

\* C10: after a failed read or an empty payload the handler only closes:
\* no decision, no log entry, no unlock, no reply.
C10_EmptyPayloadOnlyCloses ==
  \A h \in Conns :
    (pc[h] \notin {"none", "recv"} /\ data[h] = <<>>) =>
      /\ pc[h] \in {"close", "closed"}
      /\ logged[h] = <<>>
      /\ unlocks[h] = 0
      /\ response[h] = "NONE"

\* an exception reached the except clause of handle_client
Raised(h) == exc[h] # "none"

\* C11: when a step of a connection's handler raises (receive, decode, store
\* read, thread start, send; a log write that raises is swallowed inside
\* save_access_log), the handler goes straight to its finally and its socket
\* is closed; every handler that is past its recv, whatever raised in it,
\* reaches the close of its socket; the step that raises changes nothing of
\* the accept loop or of another connection, and the accept loop stays in its
\* accepting state.
C11_FaultIsContained ==
  /\ [](\A h \in Conns : Raised(h) => pc[h] \in {"close", "closed"})
  /\ \A h \in Conns : (pc[h] \notin {"none", "recv"}) ~> (pc[h] = "closed")
  /\ [][/\ \A h \in Conns :
            exc'[h] # exc[h] =>
              /\ serverPc' = serverPc
              /\ \A g \in Conns \ {h} : pc'[g] = pc[g] /\ exc'[g] = exc[g]
        /\ serverPc = "accepting" => serverPc' = "accepting"]_vars

\* one connection's thread start raised and its socket is closed; the next
\* connection was served to its end
C11_Witness ==
  /\ serverPc = "accepting"
  /\ pc[1] = "closed" /\ exc[1] = "thread"
  /\ Finished(2) /\ response[2] = "DENIED"

\* C12: a connection whose peer stays silent does not hold its handler for
\* ever: every handler that waits in recv reaches the close of its socket,
\* with every thread of the server running whenever it can.
C12_SilentPeerIsClosed ==
  \A h \in Conns : (pc[h] = "recv") ~> (pc[h] = "closed")

\* no id occurs twice
UniqueIds(cards) ==
  \A i, j \in 1..Len(cards) : cards[i].id = cards[j].id => i = j

\* C13: add_card with an id the store already holds returns without saving
\* and leaves the file as it is; and from a store with unique ids, whatever
\* add_card, update_card and delete_card commands run, the store a command
\* loads and the collection it saves hold every id at most once.
C13_AddKeepsIdsUnique ==
  /\ [](UniqueIds(load_cards) /\ UniqueIds(card_data))
  /\ [][(/\ adminOps' # adminOps
         /\ lastOp'.cmd = "add"
         /\ HasId(load_cards, lastOp'.id))
        => (cardsFile' = cardsFile /\ adminPc' = "idle")]_vars

\* a session added 0x00000001, saved it, and its next add_card of the same id
\* returned without saving: the store holds the id once
C13_Witness ==
  /\ adminOps >= 2
  /\ adminPc = "idle"
  /\ lastOp.cmd = "add" /\ lastOp.id = OTHER_ID /\ ~lastOp.saved
  /\ cardsFile.st = "ok"
  /\ Cardinality({ i \in 1..Len(cardsFile.rows) : cardsFile.rows[i].id = OTHER_ID }) = 1

C15_OpenThroughHold ==
  (serverPc = "accepting" /\ \E h \in Conns : upc[h] = "hold") => pin = "LOW"

IsPrefix(a, b) == Len(a) <= Len(b) /\ SubSeq(b, 1, Len(a)) = a

\* C16: save_access_log only appends: the entries the log holds when a call
\* opens it for writing are a prefix of what that call writes back, so what
\* the log held at an earlier state is a prefix of what it holds later.
C16_LogOnlyGrows ==
  [][\A h \in Conns :
       (pc[h] = "log_open" /\ pc'[h] = "log_dump" /\ logFile.st = "ok")
         => IsPrefix(logFile.rows, log_data[h])]_vars

\* no entry has a timestamp earlier than the entry before it
InTimeOrder(rows) ==
  \A i \in 1..(Len(rows) - 1) : rows[i].timestamp <= rows[i + 1].timestamp

\* C17 as stated: in every reachable state, for any interleaving of the
\* handlers, the entries of the persisted log are in the order of their
\* timestamps.
C17_LogInTimeOrder ==
  logFile.st = "ok" => InTimeOrder(logFile.rows)

\* C17 amended: as long as the local clock has not been set back, in every
\* reachable state and for any interleaving of the handlers, the entries of
\* the persisted log are in the order of their timestamps.
C17_InTimeOrderUnlessClockSetBack ==
  (skew = 0 /\ logFile.st = "ok") => InTimeOrder(logFile.rows)

\* the clock was never set back and the log holds the old entry and the
\* entries of two attempts, in the order of their timestamps
C17_Witness ==
  /\ skew = 0
  /\ logFile.st = "ok"
  /\ Len(logFile.rows) = 3
  /\ \A h \in Conns : Finished(h)

\* C18: without GPIO _unlock_door goes through the steps of the real backend:
\* from its start it enters the hold phase, and only from there ends.
C18_SimulationHolds ==
  [][\A h \in Conns :
       (~GPIO_AVAILABLE /\ upc[h] = "start" /\ upc'[h] # "start")
         => upc'[h] = "hold"]_vars

\* C19: once the dashboard's clear has replaced the log with the empty list,
\* no entry the log held before the truncation is in the log again, whatever
\* save_access_log calls were in flight.
C19_ClearedEntriesStayGone ==
  (clear.pc = "done" /\ logFile.st = "ok") =>
    \A i \in 1..Len(clear.removed), j \in 1..Len(logFile.rows) :
      logFile.rows[j] # clear.removed[i]

====
